---- MODULE Spec2Model ----
(***************************************************************************)
(* White Market ingest pipeline (whitemarket_fetcher.py): stream source    *)
(* adapter, incremental item parser, name normalizer, key builder,         *)
(* aggregator and batched writer.                                          *)
(*                                                                         *)
(* Text is modelled as a sequence of tokens.  A token is an atomic piece   *)
(* of text (a word, a glyph, a blank, a bracket, a wear label; "TM" is the  *)
(* trade-mark glyph of "StatTrak(TM)", "*" the star glyph); Python's       *)
(* substring, suffix, replace, strip and join operations are computed on   *)
(* the token sequence exactly as the code computes them on characters.     *)
(***************************************************************************)
EXTENDS Integers, Sequences, FiniteSets, TLC

VARIABLES
    fn_in, fn_out,                      \* arguments and results of a pure function under test
    s_body, s_head, s_buf, s_raw,       \* PrependStream: response body, head bytes, BytesIO position, raw position
    s_out, s_pc,                        \* bytes returned to the consumer so far, consumer position
    feeds, pos,                         \* raw record lists of the runs (list-fed aggregation) and the loop cursor
    buckets, results, now,              \* aggregate_whitemarket locals
    clock, run, out,                    \* wall clock, run number, results returned by earlier runs
    body, root, opened, cursor,         \* fetch_whitemarket: feed body, candidate index, streams opened, item cursor
    got_any, fetched, trace,            \* got_any flag, records yielded (with the stream that gave them), errors met
    rows, batch, buf, wpos,             \* writer: rows, UPSERT_BATCH, chunked buffer, cursor into rows
    calls, store, outcome, pc,          \* upsert calls issued, store contents, result seen by the caller, control
    writers,                            \* concurrent runs on one store: rows, chunked buffer, cursor, control of each
    failed_attempts, response           \* license backend: failure records by IP, the last request and its answer

fnVars     == <<fn_in, fn_out>>
streamVars == <<s_body, s_head, s_buf, s_raw, s_out, s_pc>>
aggVars    == <<feeds, pos, buckets, results, now, clock, run, out>>
fetchVars  == <<body, root, opened, cursor, got_any, fetched, trace>>
writeVars  == <<rows, batch, buf, wpos, calls, store>>
concVars   == <<writers>>
guardVars  == <<failed_attempts, response>>
vars       == <<fnVars, streamVars, aggVars, fetchVars, writeVars, concVars, guardVars, outcome, pc>>

-----------------------------------------------------------------------------
(* Text helpers *)

\* Python's None, for values typed Optional[str]: a reserved one-token text
None == << "<None>" >>

Blank == " "

\* s[i..j] with Python's clamping
Slice(s, i, j) == IF j < i THEN <<>> ELSE SubSeq(s, i, j)

\* sub occurs in s starting at index i
OccursAt(s, sub, i) ==
    /\ i >= 1
    /\ i + Len(sub) - 1 <= Len(s)
    /\ \A k \in 1..Len(sub) : s[i + k - 1] = sub[k]

\* `sub in s`
Contains(s, sub) == \E i \in 1..(Len(s) + 1) : OccursAt(s, sub, i)

\* s.endswith(suf)
EndsWith(s, suf) == Len(suf) <= Len(s) /\ OccursAt(s, suf, Len(s) - Len(suf) + 1)

\* s.startswith(pre)
StartsWith(s, pre) == OccursAt(s, pre, 1)

RECURSIVE LStrip(_)
LStrip(s) == IF s # <<>> /\ Head(s) = Blank THEN LStrip(Tail(s)) ELSE s

RECURSIVE RStrip(_)
RStrip(s) == IF s # <<>> /\ s[Len(s)] = Blank THEN RStrip(Slice(s, 1, Len(s) - 1)) ELSE s

\* s.strip()
Strip(s) == RStrip(LStrip(s))

\* s.replace(sub, rep): every non-overlapping occurrence, left to right (sub non-empty)
RECURSIVE Replace(_, _, _)
Replace(s, sub, rep) ==
    IF s = <<>> THEN <<>>
    ELSE IF OccursAt(s, sub, 1)
         THEN rep \o Replace(Slice(s, Len(sub) + 1, Len(s)), sub, rep)
         ELSE <<Head(s)>> \o Replace(Tail(s), sub, rep)

\* s.replace(sub, rep, 1): the first occurrence only (sub non-empty)
RECURSIVE ReplaceFirst(_, _, _)
ReplaceFirst(s, sub, rep) ==
    IF s = <<>> THEN <<>>
    ELSE IF OccursAt(s, sub, 1)
         THEN rep \o Slice(s, Len(sub) + 1, Len(s))
         ELSE <<Head(s)>> \o ReplaceFirst(Tail(s), sub, rep)

\* sep.join(parts)
RECURSIVE Join(_, _)
Join(sep, parts) ==
    IF parts = <<>> THEN <<>>
    ELSE IF Len(parts) = 1 THEN parts[1]
    ELSE parts[1] \o sep \o Join(sep, Tail(parts))

\* [p for p in parts if p != ""]
RECURSIVE NonEmpty(_)
NonEmpty(parts) ==
    IF parts = <<>> THEN <<>>
    ELSE IF Head(parts) = <<>> THEN NonEmpty(Tail(parts))
    ELSE <<Head(parts)>> \o NonEmpty(Tail(parts))

\* `x or ""` for an Optional[str]
OrEmpty(x) == IF x = None THEN <<>> ELSE x

\* Python truthiness of a text-or-None value
Truthy(v) == v # None /\ v # <<>>

-----------------------------------------------------------------------------
(* Name normalizer and key builder *)

CONDITION_NAMES ==
    << "Factory New", "Minimal Wear", "Field-Tested", "Well-Worn", "Battle-Scarred" >>

\* "(<cond>)" as text
Paren(cond) == << "(", cond, ")" >>

\* the loop over CONDITION_NAMES: index of the first label the text ends with, 0 if none
FirstCondition(s) ==
    LET hits == { i \in 1..Len(CONDITION_NAMES) : EndsWith(s, Paren(CONDITION_NAMES[i])) }
    IN  IF hits = {} THEN 0 ELSE CHOOSE i \in hits : \A j \in hits : i <= j

\* the three replace calls of line 47
StripMarkers(s) ==
    Replace(Replace(Replace(s,
        <<"StatTrak", "TM", Blank>>, <<>>),
        <<"StatTrak", Blank>>, <<>>),
        <<"Souvenir", Blank>>, <<>>)

\* a parse that strips the marker tokens first and looks for the wear label afterwards
ParseMarkersFirst(name) ==
    IF name = <<>> THEN [base |-> <<>>, stattrak |-> FALSE, souvenir |-> FALSE, condition |-> None]
    ELSE
      LET stattrak == Contains(name, <<"StatTrak">>) \/ Contains(name, <<"StatTrak", "TM">>)
          souvenir == Contains(name, <<"Souvenir">>)
          m        == Strip(StripMarkers(name))
          ci       == FirstCondition(m)
          base     == IF ci = 0 THEN m
                      ELSE Strip(Slice(m, 1, Len(m) - Len(Paren(CONDITION_NAMES[ci]))))
      IN  [base |-> base, stattrak |-> stattrak, souvenir |-> souvenir,
           condition |-> IF ci = 0 THEN None ELSE <<CONDITION_NAMES[ci]>>]

parse_market_hash_name(name) ==
    IF name = <<>> THEN [base |-> <<>>, stattrak |-> FALSE, souvenir |-> FALSE, condition |-> None]
    ELSE
      LET stattrak == Contains(name, <<"StatTrak">>) \/ Contains(name, <<"StatTrak", "TM">>)
          souvenir == Contains(name, <<"Souvenir">>)
          ci       == FirstCondition(name)
          s        == IF ci = 0 THEN name
                      ELSE Strip(Slice(name, 1, Len(name) - Len(Paren(CONDITION_NAMES[ci]))))
          base     == Strip(StripMarkers(s))
      IN  [base |-> base, stattrak |-> stattrak, souvenir |-> souvenir,
           condition |-> IF ci = 0 THEN None ELSE <<CONDITION_NAMES[ci]>>]

build_item_key(name_base, stattrak, souvenir, condition, phase) ==
    LET parts == << OrEmpty(name_base),
                    IF stattrak THEN <<"StatTrak">> ELSE <<>>,
                    IF souvenir THEN <<"Souvenir">> ELSE <<>>,
                    OrEmpty(condition),
                    OrEmpty(phase) >>
    IN  Strip(Join(<<"|">>, NonEmpty(parts)))

\* the star of knives and gloves, and the dash before a phase, as tokens
Star == "STAR"
Dash == "DASH"

\* a display name that puts the StatTrak marker in front, star or no star
DisplayNamePrefixed(name_base, stattrak, souvenir, condition, phase) ==
    LET n1 == IF stattrak THEN <<"StatTrak", "TM", Blank>> \o name_base ELSE name_base
        n2 == IF souvenir /\ ~stattrak THEN <<"Souvenir", Blank>> \o n1 ELSE n1
        n3 == IF Truthy(condition) THEN n2 \o <<Blank, "(">> \o condition \o <<")">> ELSE n2
    IN  IF Truthy(phase) THEN n3 \o <<Blank, Dash, Blank>> \o phase ELSE n3

build_display_name(name_base, stattrak, souvenir, condition, phase) ==
    LET n1 == IF stattrak
              THEN IF StartsWith(name_base, <<Star, Blank>>)
                   THEN ReplaceFirst(name_base, <<Star, Blank>>,
                                     <<Star, Blank, "StatTrak", "TM", Blank>>)
                   ELSE <<"StatTrak", "TM", Blank>> \o name_base
              ELSE name_base
        n2 == IF souvenir /\ ~stattrak THEN <<"Souvenir", Blank>> \o n1 ELSE n1
        n3 == IF Truthy(condition) THEN n2 \o <<Blank, "(">> \o condition \o <<")">> ELSE n2
    IN  IF Truthy(phase) THEN n3 \o <<Blank, Dash, Blank>> \o phase ELSE n3

-----------------------------------------------------------------------------
(* Raw records: a mapping from field names to values.  Identifier, name    *)
(* and phase values are text, a JSON null is None, a price value is a      *)
(* number [num |-> cents], a text [text |-> tokens] or a null NullValue.   *)
(* A price is [cents |-> n], an absent price (Python's None) is NoPrice.   *)

NullValue == [ null |-> TRUE ]
NoPrice   == [ none |-> TRUE ]

Get(p, f) == IF f \in DOMAIN p THEN p[f] ELSE None

\* p.get(f1) or p.get(f2) or ... or ""
RECURSIVE FirstTruthy(_, _)
FirstTruthy(p, fields) ==
    IF fields = <<>> THEN <<>>
    ELSE IF Truthy(Get(p, Head(fields))) THEN Get(p, Head(fields))
    ELSE FirstTruthy(p, Tail(fields))

ClassIdFields == << "product_class_id", "class_id", "classid", "productClassId" >>
HashFields    == << "name_hash", "hash_name", "market_hash_name", "name" >>
NameFields    == << "name_hash", "market_hash_name", "hash_name", "name" >>
PriceFields   == << "price", "price_usd", "price_cents", "amount", "value" >>

\* a grouping identity that tries the name fields before the class id fields
GroupingIdNamesFirst(p) ==
    LET name_id == FirstTruthy(p, HashFields)
    IN  IF name_id # <<>> THEN name_id ELSE FirstTruthy(p, ClassIdFields)

\* the grouping identity of a record, "" when it has none
GroupingId(p) ==
    LET class_id == FirstTruthy(p, ClassIdFields)
    IN  IF class_id # <<>> THEN class_id ELSE FirstTruthy(p, HashFields)

\* buckets is an insertion-ordered dict: a sequence of [key, items] entries
BucketIndex(bk, k) ==
    LET hits == { i \in 1..Len(bk) : bk[i].key = k }
    IN  IF hits = {} THEN 0 ELSE CHOOSE i \in hits : TRUE

\* a first loop that puts each record at the head of its group's list
BucketPrepend(bk, p) ==
    LET class_id == GroupingId(p)
        i        == BucketIndex(bk, class_id)
    IN  IF class_id = <<>> THEN bk
        ELSE IF i = 0 THEN Append(bk, [key |-> class_id, items |-> <<p>>])
        ELSE [bk EXCEPT ![i].items = <<p>> \o @]

\* the body of the first loop of aggregate_whitemarket for one record
BucketAdd(bk, p) ==
    LET class_id == GroupingId(p)
        i        == BucketIndex(bk, class_id)
    IN  IF class_id = <<>> THEN bk
        ELSE IF i = 0 THEN Append(bk, [key |-> class_id, items |-> <<p>>])
        ELSE [bk EXCEPT ![i].items = Append(@, p)]

\* decimal digit groups: value as an integer part and as a fraction, in cents
DigitGroups ==
    [ g \in {"0", "00", "1", "5", "10", "50", "250"} |->
        CASE g = "0"   -> [int |-> 0,   frac |-> 0]
          [] g = "00"  -> [int |-> 0,   frac |-> 0]
          [] g = "1"   -> [int |-> 1,   frac |-> 10]
          [] g = "5"   -> [int |-> 5,   frac |-> 50]
          [] g = "10"  -> [int |-> 10,  frac |-> 10]
          [] g = "50"  -> [int |-> 50,  frac |-> 50]
          [] g = "250" -> [int |-> 250, frac |-> 25] ]

CentsPerUnit == 100

\* float(text): [ok, cents]; digits, optionally "." and digits
ParseFloat(t) ==
    IF Len(t) = 1 /\ t[1] \in DOMAIN DigitGroups
        THEN [ok |-> TRUE, cents |-> DigitGroups[t[1]].int * CentsPerUnit]
    ELSE IF Len(t) = 3 /\ t[1] \in DOMAIN DigitGroups /\ t[2] = "." /\ t[3] \in DOMAIN DigitGroups
        THEN [ok |-> TRUE, cents |-> DigitGroups[t[1]].int * CentsPerUnit + DigitGroups[t[3]].frac]
    ELSE [ok |-> FALSE, cents |-> 0]

\* the last price field that is present and not None, 0 if none
LastPriceField(sample) ==
    LET hits == { i \in 1..Len(PriceFields) :
                    PriceFields[i] \in DOMAIN sample /\ sample[PriceFields[i]] # NullValue }
    IN  IF hits = {} THEN 0 ELSE CHOOSE i \in hits : \A j \in hits : i >= j

\* index of the first price field that is present and not None, 0 if none
FirstPriceField(sample) ==
    LET hits == { i \in 1..Len(PriceFields) :
                    PriceFields[i] \in DOMAIN sample /\ sample[PriceFields[i]] # NullValue }
    IN  IF hits = {} THEN 0 ELSE CHOOSE i \in hits : \A j \in hits : i <= j

\* f.endswith("_cents")
IsCentsField(f) == f = "price_cents"

\* price detection of aggregate_whitemarket: NoPrice, or [cents |-> n]
ExtractPrice(sample) ==
    LET i == FirstPriceField(sample)
    IN  IF i = 0 THEN NoPrice
        ELSE
          LET f      == PriceFields[i]
              v      == sample[f]
              isText == "text" \in DOMAIN v
              parsed == IF isText THEN ParseFloat(Strip(Replace(v.text, <<",">>, <<".">>)))
                        ELSE [ok |-> TRUE, cents |-> v.num]
          IN  IF ~parsed.ok THEN NoPrice
              ELSE IF IsCentsField(f) THEN [cents |-> parsed.cents \div CentsPerUnit]
              ELSE [cents |-> parsed.cents]

\* phase_str
PhaseOf(sample) ==
    LET phase == IF Truthy(Get(sample, "product_phase")) THEN Get(sample, "product_phase")
                 ELSE Get(sample, "phase")
    IN  IF Truthy(phase) THEN phase ELSE None

\* item_key of a sample
KeyOfSample(sample) ==
    LET n == parse_market_hash_name(FirstTruthy(sample, NameFields))
    IN  build_item_key(n.base, n.stattrak, n.souvenir, n.condition, PhaseOf(sample))

\* a sample taken from the end of the group instead of its start
SampleLast(items) == items[Len(items)]

\* sample = items[0]
SampleOf(items) == items[1]

\* the result record built from one bucket
ReduceBucket(items, t) ==
    LET sample == SampleOf(items)
        n      == parse_market_hash_name(FirstTruthy(sample, NameFields))
    IN  [ item_key          |-> KeyOfSample(sample),
          name_base         |-> n.base,
          stattrak          |-> n.stattrak,
          souvenir          |-> n.souvenir,
          condition         |-> n.condition,
          price_whitemarket |-> ExtractPrice(sample),
          qty_whitemarket   |-> Len(items),
          fetched_at        |-> t ]

\* a list of results that takes every record, whatever its key
DictAppend(res, rec) == Append(res, rec)

\* results[item_key] = rec on an insertion-ordered dict
DictPut(res, rec) ==
    LET hits == { i \in 1..Len(res) : res[i].item_key = rec.item_key }
    IN  IF hits = {} THEN Append(res, rec)
        ELSE [res EXCEPT ![CHOOSE i \in hits : TRUE] = rec]

-----------------------------------------------------------------------------
(* Values the variables of a component hold while another one is checked *)

\* what the caller of run_whitemarket_ingest has received: nothing yet
NoOutcome == [ kind |-> "none" ]

FnIdle     == fn_in = <<>> /\ fn_out = <<>>
StreamIdle == s_body = <<>> /\ s_head = <<>> /\ s_buf = 0 /\ s_raw = 0 /\ s_out = <<>> /\ s_pc = "closed"
AggIdle    == feeds = <<>> /\ pos = 0 /\ buckets = <<>> /\ results = <<>> /\ now = 0
                /\ clock = 0 /\ run = 0 /\ out = <<>>
FetchIdle  == body = <<>> /\ root = 0 /\ opened = 0 /\ cursor = 0 /\ got_any = FALSE
                /\ fetched = <<>> /\ trace = {}
WriteIdle  == rows = <<>> /\ batch = 0 /\ buf = <<>> /\ wpos = 0 /\ calls = <<>> /\ store = <<>>
ConcIdle   == writers = <<>>
GuardIdle  == failed_attempts = {} /\ response = [ n |-> 0 ]

-----------------------------------------------------------------------------
(* build_item_key applied to two attribute tuples *)

KeyBases      == { <<>>, <<"AK">>, <<"Widget">> }
KeyConditions == { None, <<"Factory New">>, <<"Field-Tested">> }
KeyPhases     == { None, <<"Phase 2">>, <<"Factory New">> }

KeyTuples ==
    [ name_base : KeyBases, stattrak : BOOLEAN, souvenir : BOOLEAN,
      condition : KeyConditions, phase : KeyPhases ]

KeyOfTuple(a) == build_item_key(a.name_base, a.stattrak, a.souvenir, a.condition, a.phase)

InitKey ==
    /\ fn_in \in KeyTuples \X KeyTuples
    /\ fn_out = <<>>
    /\ StreamIdle /\ AggIdle /\ FetchIdle /\ WriteIdle
    /\ ConcIdle /\ GuardIdle
    /\ outcome = NoOutcome /\ pc = "key"

BuildKeys ==
    /\ pc = "key"
    /\ fn_out' = << KeyOfTuple(fn_in[1]), KeyOfTuple(fn_in[2]) >>
    /\ pc' = "done"
    /\ UNCHANGED <<concVars, guardVars, fn_in, streamVars, aggVars, fetchVars, writeVars, outcome>>

NextKey == BuildKeys

SpecKey == InitKey /\ [][NextKey]_vars

\* C2: build_item_key is injective over attribute tuples whose components hold no "|":
\* equal keys imply equal tuples, and equal tuples give equal keys.
C2_KeyInjective ==
    pc = "done" /\ fn_out # <<>> =>
        /\ (fn_out[1] = fn_out[2] => fn_in[1] = fn_in[2])
        /\ (fn_in[1] = fn_in[2] => fn_out[1] = fn_out[2])

-----------------------------------------------------------------------------
(* Price detection on a sample, lines 225-241 *)

OnePointFive == [ text |-> << "1", ",", "5" >> ]            \* "1,5"
TenDollars   == [ text |-> << "10", ".", "00" >> ]          \* "10.00"
FiftyComma   == [ text |-> << Blank, "50", ",", "00" >> ]   \* " 50,00"
TwoFifty     == [ text |-> << "250" >> ]                    \* "250"
NotANumber   == [ text |-> << "n", "/", "a" >> ]            \* "n/a"
EmptyText    == [ text |-> << >> ]                          \* ""
FiveDollars  == [ num |-> 500 ]                             \* 5.0
ManyCents    == [ num |-> 25000 ]                           \* 250

\* values a price field may carry; under price_cents only values whose
\* hundredth is a whole number of cents
PriceValues(f) ==
    IF f = "price_cents" THEN { NullValue, TwoFifty, FiftyComma, NotANumber, ManyCents }
    ELSE IF f = "price" THEN { NullValue, OnePointFive, TenDollars, NotANumber, FiveDollars }
    ELSE { NullValue, OnePointFive, EmptyText, FiveDollars }

AllPriceValues == UNION { PriceValues(PriceFields[i]) : i \in 1..Len(PriceFields) }

PriceFieldSet == { PriceFields[i] : i \in 1..Len(PriceFields) }

\* samples: any subset of the price fields, each with one of its values
PriceSamples ==
    { s \in UNION { [D -> AllPriceValues] : D \in SUBSET PriceFieldSet } :
        \A f \in DOMAIN s : s[f] \in PriceValues(f) }

InitPrice ==
    /\ fn_in \in PriceSamples
    /\ fn_out = <<>>
    /\ StreamIdle /\ AggIdle /\ FetchIdle /\ WriteIdle
    /\ ConcIdle /\ GuardIdle
    /\ outcome = NoOutcome /\ pc = "price"

DetectPrice ==
    /\ pc = "price"
    /\ fn_out' = ExtractPrice(fn_in)
    /\ pc' = "priced"
    /\ UNCHANGED <<concVars, guardVars, fn_in, streamVars, aggVars, fetchVars, writeVars, outcome>>

NextPrice == DetectPrice

SpecPrice == InitPrice /\ [][NextPrice]_vars

\* the decimal value of each text after ',' is read as '.', in cents; -1: not a decimal
DecimalCents(v) ==
    CASE v = OnePointFive -> 150
      [] v = TenDollars   -> 1000
      [] v = FiftyComma   -> 5000
      [] v = TwoFifty     -> 25000
      [] v = NotANumber   -> -1
      [] v = EmptyText    -> -1
      [] OTHER            -> v.num

\* the fields of a sample that are present and non-null, as positions in the field order
PresentPrices(s) ==
    { i \in 1..Len(PriceFields) : PriceFields[i] \in DOMAIN s /\ s[PriceFields[i]] # NullValue }

\* C13: the first present, non-null field of (price, price_usd, price_cents, amount,
\* value) decides the price; text is a decimal with ',' read as '.'; a value under
\* price_cents is divided by 100; with no candidate field or unparseable text the
\* price is absent, not 0.
C13_PriceExtraction ==
    pc = "priced" =>
        LET present == PresentPrices(fn_in)
        IN  IF present = {} THEN fn_out = NoPrice
            ELSE LET i == CHOOSE k \in present : \A j \in present : k <= j
                     d == DecimalCents(fn_in[PriceFields[i]])
                 IN  IF d < 0 THEN fn_out = NoPrice
                     ELSE IF PriceFields[i] = "price_cents" THEN fn_out = [cents |-> d \div 100]
                     ELSE fn_out = [cents |-> d]

\* {"price": null, "price_cents": "250", "amount": "1,5"} gives 2.50
C13_Witness ==
    /\ pc = "priced"
    /\ DOMAIN fn_in = { "price", "price_cents", "amount" }
    /\ fn_in["price"] = NullValue /\ fn_in["price_cents"] = TwoFifty /\ fn_in["amount"] = OnePointFive
    /\ fn_out = [cents |-> 250]

-----------------------------------------------------------------------------
(* parse_market_hash_name on names with and without a trailing wear label *)

MaxName == 3

NamePrefixes ==
    { <<>>, <<"StatTrak", "TM", Blank>>, <<"StatTrak", Blank>>, <<"Souvenir", Blank>>, <<"Souvenir">> }

NameTokens == { Blank, "AK", "Souvenir", "(", ")", "Field-Tested" }

NameMiddles == UNION { [1..n -> NameTokens] : n \in 0..MaxName }

NameSuffixes ==
    { Paren(CONDITION_NAMES[i]) : i \in 1..Len(CONDITION_NAMES) }
        \cup { <<>>, <<"(", "Vanilla", ")">>, <<"(", "Field-Tested">>,
               << "(", "Field-Tested", ")", Blank >> }

Names == { p \o m \o x : p \in NamePrefixes, m \in NameMiddles, x \in NameSuffixes }

InitParse ==
    /\ fn_in \in Names
    /\ fn_out = <<>>
    /\ StreamIdle /\ AggIdle /\ FetchIdle /\ WriteIdle
    /\ ConcIdle /\ GuardIdle
    /\ outcome = NoOutcome /\ pc = "parse"

ParseName ==
    /\ pc = "parse"
    /\ fn_out' = parse_market_hash_name(fn_in)
    /\ pc' = "parsed"
    /\ UNCHANGED <<concVars, guardVars, fn_in, streamVars, aggVars, fetchVars, writeVars, outcome>>

NextParse == ParseName

SpecParse == InitParse /\ [][NextParse]_vars

\* the wear labels L such that the name ends with "(L)"
LabelsEnding(name) ==
    { CONDITION_NAMES[i] : i \in { k \in 1..Len(CONDITION_NAMES) :
                                     EndsWith(name, Paren(CONDITION_NAMES[k])) } }

\* C14: the condition is the label L exactly when the name ends with "(L)", None
\* when no label in parentheses is a suffix (the empty name gives ("", False, False,
\* None)); the trailing parenthetical is removed before the marker tokens are stripped.
C14_ConditionIsTrailingLabel ==
    pc = "parsed" =>
        /\ \A L \in { CONDITION_NAMES[i] : i \in 1..Len(CONDITION_NAMES) } :
              (fn_out.condition = <<L>>) <=> (L \in LabelsEnding(fn_in))
        /\ (fn_out.condition = None) <=> (LabelsEnding(fn_in) = {})
        /\ fn_in = <<>> =>
              fn_out = [base |-> <<>>, stattrak |-> FALSE, souvenir |-> FALSE, condition |-> None]
        /\ LabelsEnding(fn_in) # {} =>
              fn_out.base = Strip(StripMarkers(Strip(Slice(fn_in, 1, Len(fn_in) - 3))))

\* "Souvenir (Field-Tested)": the label goes first, which leaves the base "Souvenir"
C14_Witness ==
    /\ pc = "parsed"
    /\ fn_in = << "Souvenir", Blank, "(", "Field-Tested", ")" >>
    /\ fn_out = [base |-> <<"Souvenir">>, stattrak |-> FALSE, souvenir |-> TRUE,
                 condition |-> <<"Field-Tested">>]

-----------------------------------------------------------------------------
(* The grouping identity of one raw record, lines 190-211 *)

\* the identity fields in the order the claim gives them
IdentityOrder ==
    << "product_class_id", "class_id", "classid", "productClassId",
       "name_hash", "hash_name", "market_hash_name", "name" >>

IdentityFields == { IdentityOrder[i] : i \in 1..Len(IdentityOrder) }

\* what a record may hold under a field: nothing, null, the empty string or a
\* text of the field's own; null under the first field of each list only
IdentityChoices ==
    { c \in [IdentityFields -> { "absent", "null", "empty", "text" }] :
        \A f \in IdentityFields : c[f] = "null" => f \in { "product_class_id", "name_hash" } }

RecordOfChoice(c) ==
    [ f \in { g \in IdentityFields : c[g] # "absent" } |->
        IF c[f] = "null" THEN None ELSE IF c[f] = "empty" THEN <<>> ELSE <<f>> ]

RawRecords == { RecordOfChoice(c) : c \in IdentityChoices }

InitGroup ==
    /\ fn_in \in RawRecords
    /\ fn_out = <<>>
    /\ StreamIdle /\ AggIdle /\ FetchIdle /\ WriteIdle
    /\ ConcIdle /\ GuardIdle
    /\ outcome = NoOutcome /\ pc = "record"

\* the body of the first loop for the record, on empty buckets
GroupRecord ==
    /\ pc = "record"
    /\ buckets' = BucketAdd(buckets, fn_in)
    /\ pc' = "grouped"
    /\ UNCHANGED <<concVars, guardVars, fnVars, streamVars, feeds, pos, results, now, clock, run, out,
                   fetchVars, writeVars, outcome>>

NextGroup == GroupRecord

SpecGroup == InitGroup /\ [][NextGroup]_vars

\* the positions in the order of the fields the record holds a non-empty value under
Routable(p) ==
    { i \in 1..Len(IdentityOrder) :
        /\ IdentityOrder[i] \in DOMAIN p
        /\ p[IdentityOrder[i]] # None /\ p[IdentityOrder[i]] # <<>> }

\* C20: the grouping identity of a record is its first non-empty value among
\* product_class_id, class_id, classid, productClassId, else among name_hash,
\* hash_name, market_hash_name, name; a record with none is dropped and is in no
\* group and in no count.
C20_GroupingIdentity ==
    pc = "grouped" =>
        IF Routable(fn_in) = {} THEN buckets = <<>>
        ELSE LET i == CHOOSE k \in Routable(fn_in) : \A j \in Routable(fn_in) : k <= j
             IN  buckets = << [ key |-> fn_in[IdentityOrder[i]], items |-> << fn_in >> ] >>

\* product_class_id is null and class_id empty: classid decides, before the names
C20_Witness ==
    /\ pc = "grouped"
    /\ DOMAIN fn_in = { "product_class_id", "class_id", "classid", "hash_name", "name" }
    /\ fn_in["product_class_id"] = None /\ fn_in["class_id"] = <<>>
    /\ Len(buckets) = 1 /\ buckets[1].key = << "classid" >>

-----------------------------------------------------------------------------
(* build_display_name applied to an attribute tuple, twice *)

MaxBase == 3

DisplayTokens == { Star, Blank, "AK" }

DisplayBases == UNION { [1..n -> DisplayTokens] : n \in 0..MaxBase }

DisplayTuples ==
    [ name_base : DisplayBases, stattrak : BOOLEAN, souvenir : BOOLEAN,
      condition : { None, <<>>, <<"Factory New">> },
      phase : { None, <<>>, <<"Phase 2">> } ]

DisplayOfTuple(a) ==
    build_display_name(a.name_base, a.stattrak, a.souvenir, a.condition, a.phase)

InitDisplay ==
    /\ fn_in \in DisplayTuples
    /\ fn_out = <<>>
    /\ StreamIdle /\ AggIdle /\ FetchIdle /\ WriteIdle
    /\ ConcIdle /\ GuardIdle
    /\ outcome = NoOutcome /\ pc = "display"

\* a call of build_display_name on the tuple; the function keeps no state between calls
DisplayCall ==
    /\ pc \in { "display", "displayed" }
    /\ fn_out' = Append(fn_out, DisplayOfTuple(fn_in))
    /\ pc' = IF pc = "display" THEN "displayed" ELSE "displayed_twice"
    /\ UNCHANGED <<concVars, guardVars, fn_in, streamVars, aggVars, fetchVars, writeVars, outcome>>

NextDisplay == DisplayCall

SpecDisplay == InitDisplay /\ [][NextDisplay]_vars

\* the base name starts with the star and a blank
Starred(b) == Len(b) >= 2 /\ b[1] = Star /\ b[2] = Blank

\* the display name as the claim words it
DisplayExpected(a) ==
    LET b       == a.name_base
        marker  == <<"StatTrak", "TM", Blank>>
        marked  == IF a.stattrak
                   THEN IF Starred(b) THEN <<Star, Blank>> \o marker \o SubSeq(b, 3, Len(b))
                        ELSE marker \o b
                   ELSE IF a.souvenir THEN <<"Souvenir", Blank>> \o b
                   ELSE b
        hasCond  == a.condition \notin { None, <<>> }
        hasPhase == a.phase \notin { None, <<>> }
    IN  marked
          \o (IF hasCond THEN <<Blank, "(">> \o a.condition \o <<")">> ELSE <<>>)
          \o (IF hasPhase THEN <<Blank, Dash, Blank>> \o a.phase ELSE <<>>)

\* C21: with stattrak the marker goes right after a leading star, else in front;
\* Souvenir is prefixed only with souvenir and without stattrak; the condition in
\* parentheses and then the phase after a dash are appended when present; repeated
\* calls on the same tuple give the same name.
C21_DisplayName ==
    /\ \A i \in 1..Len(fn_out) : pc \in { "displayed", "displayed_twice" } =>
          fn_out[i] = DisplayExpected(fn_in)
    /\ pc = "displayed_twice" => Len(fn_out) = 2 /\ fn_out[1] = fn_out[2]

\* a starred StatTrak and Souvenir knife with condition and phase, displayed twice
C21_Witness ==
    /\ pc = "displayed_twice"
    /\ fn_in = [ name_base |-> <<Star, Blank, "AK">>, stattrak |-> TRUE, souvenir |-> TRUE,
                 condition |-> <<"Factory New">>, phase |-> <<"Phase 2">> ]
    /\ fn_out[2] = << Star, Blank, "StatTrak", "TM", Blank, "AK", Blank, "(", "Factory New", ")",
                      Blank, Dash, Blank, "Phase 2" >>

-----------------------------------------------------------------------------
(* Stream source adapter: open_source_stream and PrependStream.read *)

HeadLen == 4

GzipMagic == << 31, 139 >>

Min(a, b) == IF a <= b THEN a ELSE b

MaxBody == 6
MaxRead == 3

Bytes == { 31, 139, 7 }

Bodies == UNION { [1..n -> Bytes] : n \in 0..MaxBody }

\* sizes a consumer may pass to read: -1 (everything) or a count
ReadSizes == { -1 } \cup (0..MaxRead)

\* self.buf.read(n) on the BytesIO over head: the bytes it returns
BufRead(head, bufpos, n) ==
    LET avail == Len(head) - bufpos
        k     == IF n < 0 THEN avail ELSE Min(n, avail)
    IN  Slice(head, bufpos + 1, bufpos + k)

\* PrependStream.read returns b without touching base
ReturnsFromBuf(b, n) == n = -1 \/ Len(b) = n

InitStream ==
    /\ s_body \in Bodies
    /\ s_head = <<>> /\ s_buf = 0 /\ s_raw = 0 /\ s_out = <<>> /\ s_pc = "closed"
    /\ FnIdle /\ AggIdle /\ FetchIdle /\ WriteIdle
    /\ ConcIdle /\ GuardIdle
    /\ outcome = NoOutcome /\ pc = "stream"

\* head = resp.raw.read(4); base = PrependStream(head, resp.raw); gzip or pass-through
StreamOpen ==
    /\ pc = "stream" /\ s_pc = "closed"
    /\ s_head' = Slice(s_body, 1, Min(HeadLen, Len(s_body)))
    /\ s_raw' = Min(HeadLen, Len(s_body))
    /\ s_buf' = 0
    /\ s_pc' = IF StartsWith(s_head', GzipMagic) THEN "gzip" ELSE "plain"
    /\ UNCHANGED <<concVars, guardVars, s_body, s_out, fnVars, aggVars, fetchVars, writeVars, outcome, pc>>

\* who calls read: the gzip reader asks for positive counts only, a direct
\* consumer of the pass-through stream may ask for any size
SizesOf(branch) == IF branch = "gzip" THEN 1..MaxRead ELSE ReadSizes

\* the consumer takes the returned bytes and stops at an empty result
\* (read(0) returns nothing on any stream and ends nothing)
Deliver(b, n) ==
    /\ s_out' = s_out \o b
    /\ s_pc' = IF b = <<>> /\ n # 0 THEN "eof" ELSE s_pc

\* read(n) answered from the head buffer alone (n == -1 or len(b) == n)
ReadHead ==
    /\ pc = "stream" /\ s_pc \in {"gzip", "plain"}
    /\ \E n \in SizesOf(s_pc) :
         LET b == BufRead(s_head, s_buf, n)
         IN  /\ ReturnsFromBuf(b, n)
             /\ s_buf' = s_buf + Len(b)
             /\ Deliver(b, n)
    /\ UNCHANGED <<concVars, guardVars, s_body, s_head, s_raw, fnVars, aggVars, fetchVars, writeVars, outcome, pc>>

\* read(n) that continues into base: rest = self.base.read(n - len(b)),
\* which returns at most that many bytes and none only at the end of the body
ReadBase ==
    /\ pc = "stream" /\ s_pc \in {"gzip", "plain"}
    /\ \E n \in SizesOf(s_pc) :
         LET b    == BufRead(s_head, s_buf, n)
             want == n - Len(b)
             left == Len(s_body) - s_raw
         IN  /\ ~ReturnsFromBuf(b, n)
             /\ \E k \in 0..Min(want, left) :
                  /\ (k = 0 => left = 0)
                  /\ s_buf' = s_buf + Len(b)
                  /\ s_raw' = s_raw + k
                  /\ Deliver(b \o Slice(s_body, s_raw + 1, s_raw + k), n)
    /\ UNCHANGED <<concVars, guardVars, s_body, s_head, fnVars, aggVars, fetchVars, writeVars, outcome, pc>>

NextStream == StreamOpen \/ ReadHead \/ ReadBase

SpecStream == InitStream /\ [][NextStream]_vars

\* C6: reading until an empty result returns the complete body: the sniffed
\* head bytes followed by the rest, nothing lost, duplicated or reordered.
C6_StreamComplete == s_pc = "eof" => s_out = s_body

-----------------------------------------------------------------------------
(* Aggregator: aggregate_whitemarket, one action per loop iteration *)

StatTrakWidgetFT == << "StatTrak", "TM", Blank, "Widget", Blank, "(", "Field-Tested", ")" >>
WidgetFT         == << "Widget", Blank, "(", "Field-Tested", ")" >>

\* raw records of the feed
RecA1 == [ class_id |-> <<"A">>, market_hash_name |-> StatTrakWidgetFT, price |-> [text |-> <<"10", ".", "00">>] ]
RecB1 == [ class_id |-> <<"B">>, market_hash_name |-> StatTrakWidgetFT, price |-> [text |-> <<"10", ".", "00">>] ]
RecA2 == [ class_id |-> <<"A">>, market_hash_name |-> WidgetFT, price |-> [num |-> 500] ]
RecN  == [ name |-> <<"Widget">>, phase |-> <<"Phase 2">>, price_cents |-> [text |-> <<"250">>] ]
RecX  == [ price |-> [text |-> <<"1", ",", "5">>] ]

Pool == { RecA1, RecB1, RecA2, RecN, RecX }

MaxFeed == 3

Feeds == UNION { [1..n -> Pool] : n \in 0..MaxFeed }

\* every reordering of a feed
Reorderings(f) ==
    { [i \in 1..Len(f) |-> f[p[i]]] : p \in Permutations(1..Len(f)) }

\* a grouping structure that outlives the call instead of starting empty
KeptBuckets(prev) == prev

\* buckets: Dict[str, dict] = {}
NewBuckets(prev) == <<>>

InitAgg ==
    /\ \E f \in Feeds : \E g \in Reorderings(f) : feeds = <<f, g>>
    /\ pos = 0 /\ buckets = <<>> /\ results = <<>> /\ now = 0
    /\ clock = 0 /\ run = 0 /\ out = <<>>
    /\ FnIdle /\ StreamIdle /\ FetchIdle /\ WriteIdle
    /\ ConcIdle /\ GuardIdle
    /\ outcome = NoOutcome /\ pc = "call"

\* aggregate_whitemarket is called: some time after the previous run
AggStart ==
    /\ pc = "call"
    /\ run' = run + 1
    /\ clock' = clock + 1
    /\ buckets' = NewBuckets(buckets)
    /\ pos' = 1
    /\ pc' = "group"
    /\ UNCHANGED <<concVars, guardVars, feeds, results, now, out, fnVars, streamVars, fetchVars, writeVars, outcome>>

\* first loop, one record of a list of products
AggConsume ==
    /\ pc = "group" /\ feeds # <<>>
    /\ pos <= Len(feeds[run])
    /\ buckets' = BucketAdd(buckets, feeds[run][pos])
    /\ pos' = pos + 1
    /\ UNCHANGED <<concVars, guardVars, feeds, results, now, clock, run, out, fnVars, streamVars, fetchVars,
                   writeVars, outcome, pc>>

\* the products are exhausted: results = {}, now = datetime.now(timezone.utc)
EndOfProducts ==
    /\ results' = <<>>
    /\ now' = clock
    /\ pos' = 1
    /\ pc' = "reduce"

AggStamp ==
    /\ pc = "group" /\ feeds # <<>>
    /\ pos > Len(feeds[run])
    /\ EndOfProducts
    /\ UNCHANGED <<concVars, guardVars, feeds, buckets, clock, run, out, fnVars, streamVars, fetchVars,
                   writeVars, outcome>>

\* second loop, one bucket
AggReduce ==
    /\ pc = "reduce"
    /\ pos <= Len(buckets)
    /\ results' = DictPut(results, ReduceBucket(buckets[pos].items, now))
    /\ pos' = pos + 1
    /\ UNCHANGED <<concVars, guardVars, feeds, buckets, now, clock, run, out, fnVars, streamVars, fetchVars,
                   writeVars, outcome, pc>>

\* return results (list-fed runs: the caller keeps them and starts the next run)
AggReturn ==
    /\ pc = "reduce" /\ feeds # <<>>
    /\ pos > Len(buckets)
    /\ out' = Append(out, results)
    /\ pc' = IF run < Len(feeds) THEN "call" ELSE "done"
    /\ UNCHANGED <<concVars, guardVars, feeds, pos, buckets, results, now, clock, run, fnVars, streamVars,
                   fetchVars, writeVars, outcome>>

NextAgg == AggStart \/ AggConsume \/ AggStamp \/ AggReduce \/ AggReturn

SpecAgg == InitAgg /\ [][NextAgg]_vars

\* the second loop has processed every bucket
Reduced == pc = "reduce" /\ pos > Len(buckets)

\* number of raw records in the buckets whose sample has item_key k
RECURSIVE RecordsOfKey(_, _)
RecordsOfKey(bk, k) ==
    IF bk = <<>> THEN 0
    ELSE (IF KeyOfSample(bk[1].items[1]) = k THEN Len(bk[1].items) ELSE 0)
         + RecordsOfKey(Tail(bk), k)

ItemsOfKey(res, k) == { i \in 1..Len(res) : res[i].item_key = k }

\* C1: records whose sampled names normalize to the same attribute tuple are
\* represented by exactly one AggregatedItem, whose qty_whitemarket is the
\* combined number of raw records of all groups that map to that item_key.
C1_CombinedCount ==
    Reduced =>
        \A b \in 1..Len(buckets) :
            LET k == KeyOfSample(buckets[b].items[1])
            IN  /\ Cardinality(ItemsOfKey(results, k)) = 1
                /\ \A i \in ItemsOfKey(results, k) :
                       results[i].qty_whitemarket = RecordsOfKey(buckets, k)

\* a result record without its timestamp
Untimed(rec) == [ f \in DOMAIN rec \ {"fetched_at"} |-> rec[f] ]

ItemSet(res)        == { res[i] : i \in 1..Len(res) }
UntimedItemSet(res) == { Untimed(res[i]) : i \in 1..Len(res) }

BothRunsDone == Len(out) = 2

\* C7 as stated: two runs over the same raw sequence, at different clock times,
\* yield identical AggregatedItem sets, fetched_at included.
C7_IdenticalSets ==
    BothRunsDone /\ feeds[1] = feeds[2] => ItemSet(out[1]) = ItemSet(out[2])

\* C7 amended: two runs over the same raw sequence yield the same item_keys with
\* equal values in every field except fetched_at, which is each run's own clock reading.
C7_IdenticalButTimestamp ==
    BothRunsDone /\ feeds[1] = feeds[2] =>
        /\ UntimedItemSet(out[1]) = UntimedItemSet(out[2])
        /\ Len(out[1]) = Len(out[2])
        /\ \A r \in 1..2 : \A i \in 1..Len(out[r]) : out[r][i].fetched_at = r

C7_Witness ==
    /\ BothRunsDone /\ feeds[1] = feeds[2]
    /\ \E i \in 1..Len(out[2]) : out[2][i].qty_whitemarket >= 2
    /\ Len(out[2]) >= 2

\* the first record of every group, in the order the groups first appear
RECURSIVE FirstRecords(_, _)
FirstRecords(f, seen) ==
    IF f = <<>> THEN <<>>
    ELSE LET g == GroupingId(Head(f))
         IN  IF g = <<>> \/ g \in seen THEN FirstRecords(Tail(f), seen)
             ELSE <<Head(f)>> \o FirstRecords(Tail(f), seen \cup {g})

\* C8 as stated: any reordering of the raw sequence gives the same item_keys
\* with the same name_base, flags, condition, price and quantity.
C8_ReorderInvariant ==
    BothRunsDone => UntimedItemSet(out[1]) = UntimedItemSet(out[2])

\* C8 amended: the output is the same for every reordering that keeps the first
\* record of each group and the order in which the groups first appear.
C8_ReorderKeepingFirsts ==
    BothRunsDone /\ FirstRecords(feeds[1], {}) = FirstRecords(feeds[2], {}) =>
        UntimedItemSet(out[1]) = UntimedItemSet(out[2])

C8_Witness ==
    /\ BothRunsDone
    /\ feeds[1] # feeds[2]
    /\ FirstRecords(feeds[1], {}) = FirstRecords(feeds[2], {})
    /\ Len(FirstRecords(feeds[1], {})) >= 2
    /\ \E i \in 1..Len(out[2]) : out[2][i].qty_whitemarket >= 2

RECURSIVE Retained(_)
\* the raw records held by the grouping structure: every entry["items"] list
Retained(bk) == IF bk = <<>> THEN 0 ELSE Len(bk[1].items) + Retained(Tail(bk))

\* C12: while the raw sequence is consumed, the number of raw records retained in
\* the grouping structure is at most the number of distinct groups seen so far.
C12_RetainedBoundedByGroups == pc = "group" => Retained(buckets) <= Len(buckets)

\* the positions in a feed of the records with the given grouping identity
Members(f, g) == { i \in 1..Len(f) : GroupingId(f[i]) = g }

\* the group reduced last, while the second loop runs
LastGroup == buckets[pos - 1].key

\* C19: the sampled fields of a group (name, price, phase) come from its first
\* record in feed order, later records change the count only, and qty_whitemarket
\* is the number of raw records folded into the group.
C19_FirstRecordSampled ==
    pc = "reduce" /\ pos >= 2 =>
        LET f     == feeds[run]
            m     == Members(f, LastGroup)
            first == f[CHOOSE i \in m : \A j \in m : i <= j]
            n     == parse_market_hash_name(FirstTruthy(first, NameFields))
        IN  /\ m # {}
            /\ \E i \in 1..Len(results) :
                  /\ results[i].item_key = build_item_key(n.base, n.stattrak, n.souvenir,
                                                          n.condition, PhaseOf(first))
                  /\ results[i].name_base = n.base
                  /\ results[i].stattrak = n.stattrak
                  /\ results[i].souvenir = n.souvenir
                  /\ results[i].condition = n.condition
                  /\ results[i].price_whitemarket = ExtractPrice(first)
                  /\ results[i].qty_whitemarket = Cardinality(m)

\* the group of class id A holds a StatTrak record at 10.00, then a plain one at
\* 5.00, then the first again: the item is the StatTrak one at 10.00, three times
C19_Witness ==
    /\ pc = "reduce" /\ pos >= 2
    /\ feeds[run] = << RecA1, RecA2, RecA1 >>
    /\ results[1].stattrak /\ results[1].price_whitemarket = [cents |-> 1000]
    /\ results[1].qty_whitemarket = 3

-----------------------------------------------------------------------------
(* Batched writer: chunked, upsert_market_rows and the end of               *)
(* run_whitemarket_ingest.  The store is a table keyed by item_key, given   *)
(* as a sequence of rows with pairwise distinct keys.                       *)

MaxRows  == 5
MaxBatch == 2

\* a buffer yielded one row late
ChunkOverfull(b, size) == Len(b) > size

\* len(buf) >= size
ChunkFull(b, size) == Len(b) >= size

\* an upsert that, on a conflict, overwrites the quantity and keeps the other fields
UpsertRowMerge(st, row) ==
    LET hits == { i \in 1..Len(st) : st[i].item_key = row.item_key }
    IN  IF hits = {} THEN Append(st, row)
        ELSE [st EXCEPT ![CHOOSE i \in hits : TRUE].qty_whitemarket = row.qty_whitemarket]

\* one row on an upsert with on_conflict = item_key
UpsertRow(st, row) ==
    LET hits == { i \in 1..Len(st) : st[i].item_key = row.item_key }
    IN  IF hits = {} THEN Append(st, row)
        ELSE [st EXCEPT ![CHOOSE i \in hits : TRUE] = row]

\* sb.table(MARKET_TABLE).upsert(batch, on_conflict="item_key").execute()
RECURSIVE UpsertBatch(_, _)
UpsertBatch(st, b) ==
    IF b = <<>> THEN st ELSE UpsertBatch(UpsertRow(st, Head(b)), Tail(b))

\* a row of the given number: its key is that many "k" tokens
RowN(i) == [ item_key |-> [j \in 1..i |-> "k"], qty_whitemarket |-> i ]

InitWrite ==
    /\ \E n \in 0..MaxRows : rows = [i \in 1..n |-> RowN(i)]
    /\ batch \in 1..MaxBatch
    /\ store \in { <<>>, << [RowN(1) EXCEPT !.qty_whitemarket = 0] >> }
    /\ buf = <<>> /\ wpos = 1 /\ calls = <<>>
    /\ FnIdle /\ StreamIdle /\ AggIdle /\ FetchIdle
    /\ ConcIdle /\ GuardIdle
    /\ outcome = NoOutcome /\ pc = "rows"

\* if rows: upsert_market_rows(sb, rows)
WriteBegin ==
    /\ pc = "rows" /\ rows # <<>>
    /\ buf' = <<>> /\ wpos' = 1
    /\ pc' = "chunk"
    /\ UNCHANGED <<concVars, guardVars, rows, batch, calls, store, fnVars, streamVars, aggVars, fetchVars, outcome>>

\* no rows: return len(rows) without a write
WriteNothing ==
    /\ pc = "rows" /\ rows = <<>>
    /\ outcome' = [ kind |-> "returned", value |-> Len(rows) ]
    /\ pc' = "done"
    /\ UNCHANGED <<concVars, guardVars, fnVars, streamVars, aggVars, fetchVars, writeVars>>

\* chunked: buf.append(x); a full buffer is yielded
ChunkAppend ==
    /\ pc = "chunk" /\ wpos <= Len(rows)
    /\ buf' = Append(buf, rows[wpos])
    /\ wpos' = wpos + 1
    /\ pc' = IF ChunkFull(buf', batch) THEN "yield" ELSE "chunk"
    /\ UNCHANGED <<concVars, guardVars, rows, batch, calls, store, fnVars, streamVars, aggVars, fetchVars, outcome>>

\* chunked: the rows are exhausted and the buffer holds a rest, which is yielded
ChunkRest ==
    /\ pc = "chunk" /\ wpos > Len(rows) /\ buf # <<>>
    /\ pc' = "yield_rest"
    /\ UNCHANGED <<concVars, guardVars, fnVars, streamVars, aggVars, fetchVars, writeVars, outcome>>

\* the upsert of the yielded batch succeeds
UpsertOk ==
    /\ pc \in {"yield", "yield_rest"}
    /\ calls' = Append(calls, [ rows |-> buf, on_conflict |-> "item_key", ok |-> TRUE ])
    /\ store' = UpsertBatch(store, buf)
    /\ buf' = IF pc = "yield" THEN <<>> ELSE buf
    /\ pc' = IF pc = "yield" THEN "chunk" ELSE "written"
    /\ UNCHANGED <<concVars, guardVars, rows, batch, wpos, fnVars, streamVars, aggVars, fetchVars, outcome>>

\* a failed upsert that is caught and passed over, the writer going on with the next chunk
UpsertFailsSwallowed ==
    /\ pc \in {"yield", "yield_rest"}
    /\ calls' = Append(calls, [ rows |-> buf, on_conflict |-> "item_key", ok |-> FALSE ])
    /\ buf' = IF pc = "yield" THEN <<>> ELSE buf
    /\ pc' = IF pc = "yield" THEN "chunk" ELSE "written"
    /\ UNCHANGED <<concVars, guardVars, rows, batch, wpos, store, fnVars, streamVars, aggVars, fetchVars, outcome>>

\* the upsert of the yielded batch raises: nothing catches it on the way to the caller
UpsertFails ==
    /\ pc \in {"yield", "yield_rest"}
    /\ calls' = Append(calls, [ rows |-> buf, on_conflict |-> "item_key", ok |-> FALSE ])
    /\ outcome' = [ kind |-> "raised", error |-> "store" ]
    /\ pc' = "done"
    /\ UNCHANGED <<concVars, guardVars, rows, batch, buf, wpos, store, fnVars, streamVars, aggVars, fetchVars>>

\* chunked is exhausted with an empty buffer: upsert_market_rows returns
ChunkEnd ==
    /\ pc = "chunk" /\ wpos > Len(rows) /\ buf = <<>>
    /\ pc' = "written"
    /\ UNCHANGED <<concVars, guardVars, fnVars, streamVars, aggVars, fetchVars, writeVars, outcome>>

\* return len(rows)
WriteReturn ==
    /\ pc = "written"
    /\ outcome' = [ kind |-> "returned", value |-> Len(rows) ]
    /\ pc' = "done"
    /\ UNCHANGED <<concVars, guardVars, fnVars, streamVars, aggVars, fetchVars, writeVars>>

NextWrite ==
    \/ WriteBegin \/ WriteNothing \/ ChunkAppend \/ ChunkRest
    \/ UpsertOk \/ UpsertFails \/ ChunkEnd \/ WriteReturn

SpecWrite == InitWrite /\ [][NextWrite]_vars

\* ceil(n / s)
CeilDiv(n, s) == (n + s - 1) \div s

RECURSIVE CallRows(_)
CallRows(cs) == IF cs = <<>> THEN <<>> ELSE cs[1].rows \o CallRows(Tail(cs))

Returned == pc = "done" /\ outcome.kind = "returned"

\* C9: n rows with batch size s >= 1 give exactly ceil(n/s) upsert calls with
\* on_conflict = item_key; every call but the last carries s rows, the last
\* between 1 and s, and the calls in order carry every row exactly once.
C9_BatchPartition ==
    Returned =>
        /\ Len(calls) = CeilDiv(Len(rows), batch)
        /\ \A i \in 1..Len(calls) :
              /\ calls[i].on_conflict = "item_key"
              /\ i < Len(calls) => Len(calls[i].rows) = batch
              /\ i = Len(calls) => Len(calls[i].rows) \in 1..batch
        /\ CallRows(calls) = rows

C9_Witness ==
    /\ Returned
    /\ Len(calls) = 3
    /\ Len(calls[1].rows) = batch /\ Len(calls[3].rows) < batch

\* rows of the calls that succeeded
RECURSIVE ConfirmedRows(_)
ConfirmedRows(cs) ==
    IF cs = <<>> THEN 0
    ELSE (IF cs[1].ok THEN Len(cs[1].rows) ELSE 0) + ConfirmedRows(Tail(cs))

UpsertFailed == pc = "done" /\ calls # <<>> /\ ~calls[Len(calls)].ok

\* C10: when the upsert of chunk k fails, the outcome the caller receives names
\* the failed chunk (index and row count) and the count of rows confirmed before it.
C10_PartialSuccessOutcome ==
    UpsertFailed =>
        /\ {"chunk_index", "chunk_rows", "confirmed_rows"} \subseteq DOMAIN outcome
        /\ outcome.chunk_index = Len(calls) - 1
        /\ outcome.chunk_rows = Len(calls[Len(calls)].rows)
        /\ outcome.confirmed_rows = ConfirmedRows(calls)

StoreRows == { store[i] : i \in 1..Len(store) }

FailedCalls == { i \in 1..Len(calls) : ~calls[i].ok }

\* C11: when the upsert of chunk k fails, the failure reaches the caller, chunk k
\* is not retried, the rows of the chunks before it stay committed and no chunk
\* after it is written.
C11_FailureStopsWriter ==
    FailedCalls # {} =>
        /\ pc = "done" /\ outcome.kind = "raised"
        /\ FailedCalls = { Len(calls) }
        /\ CallRows(calls) = SubSeq(rows, 1, Len(CallRows(calls)))
        /\ \A i \in 1..Len(rows) :
              (i <= ConfirmedRows(calls)) <=> (rows[i] \in StoreRows)

C11_Witness ==
    /\ FailedCalls # {}
    /\ Len(calls) >= 2
    /\ wpos <= Len(rows)
    /\ ConfirmedRows(calls) >= 1

-----------------------------------------------------------------------------
(* Incremental item parser and the whole run: run_whitemarket_ingest pulls  *)
(* fetch_whitemarket through aggregate_whitemarket, then writes.  A feed    *)
(* body has a root shape, may be gzip-compressed, and holds elements: raw   *)
(* records, values that are not objects, and text that is not JSON.         *)

Scalar  == [ scalar |-> TRUE ]     \* a JSON value that is not an object
Garbage == [ garbage |-> TRUE ]    \* text that does not decode
Wrapper == [ wrapper |-> TRUE ]    \* the root object {"products": [...]} or {"data": [...]} as one record

RootPaths == << "item", "products.item", "data.item" >>

\* root = Fallback: the NDJSON reader after the three candidates
Fallback == Len(RootPaths) + 1

Shapes == { RootPaths[i] : i \in 1..Len(RootPaths) } \cup { "ndjson" }

MaxItems == 2

Elements == Pool \cup { Scalar, Garbage }

FeedBodies ==
    [ shape : Shapes, gzip : BOOLEAN,
      elems : UNION { [1..n -> Elements] : n \in 0..MaxItems } ]

\* isinstance(obj, dict)
IsDict(e) == e # Scalar /\ e # Garbage

\* what ijson.items(stream, root) enumerates: the elements at that location
ItemsAt(b, r) == IF b.shape = RootPaths[r] THEN b.elems ELSE <<>>

\* the lines the text reader gives: one per element of an NDJSON body, otherwise
\* the whole document as a single line
Lines(b) ==
    IF b.shape = "ndjson" THEN b.elems
    ELSE IF \E i \in 1..Len(b.elems) : b.elems[i] = Garbage THEN << Garbage >>
    ELSE IF b.shape = "item" THEN << Scalar >>
    ELSE << Wrapper >>

\* the module imports os, gzip, io, typing, datetime, requests, dotenv and ijson,
\* and no json: the name json is unbound where json.loads is called
JsonImported == FALSE

\* json.loads(line) followed by isinstance(obj, dict): the line is yielded
LineYields(line) == JsonImported /\ line # Garbage /\ IsDict(line)

\* rec["fetched_at"].isoformat()
IsoFormat(t) == [ iso |-> t ]

\* the row built from one aggregated record
RowOf(rec) ==
    [ item_key          |-> rec.item_key,
      name_base         |-> rec.name_base,
      stattrak          |-> rec.stattrak,
      souvenir          |-> rec.souvenir,
      condition         |-> rec.condition,
      price_whitemarket |-> rec.price_whitemarket,
      qty_whitemarket   |-> rec.qty_whitemarket,
      fetched_at        |-> IsoFormat(rec.fetched_at) ]

BuildRows(res) == [ i \in 1..Len(res) |-> RowOf(res[i]) ]

Init ==
    /\ body \in FeedBodies
    /\ batch \in 1..MaxBatch
    /\ root = 0 /\ opened = 0 /\ cursor = 0 /\ got_any = FALSE
    /\ fetched = <<>> /\ trace = {}
    /\ rows = <<>> /\ buf = <<>> /\ wpos = 0 /\ calls = <<>> /\ store = <<>>
    /\ feeds = <<>> /\ pos = 0 /\ buckets = <<>> /\ results = <<>> /\ now = 0
    /\ clock = 0 /\ run = 0 /\ out = <<>>
    /\ FnIdle /\ StreamIdle
    /\ ConcIdle /\ GuardIdle
    /\ outcome = NoOutcome /\ pc = "start"

\* an exception leaves run_whitemarket_ingest
Raise(err) ==
    /\ outcome' = [ kind |-> "raised", error |-> err ]
    /\ pc' = "done"

\* get_supabase_client raises: SUPABASE_URL or the key is not configured
ClientError ==
    /\ pc = "start"
    /\ Raise("RuntimeError")
    /\ UNCHANGED <<concVars, guardVars, fnVars, streamVars, aggVars, fetchVars, writeVars>>

\* the client is built, the generator is created and aggregate_whitemarket starts
\* to pull it: the first candidate is next
IngestStart ==
    /\ pc = "start"
    /\ run' = run + 1
    /\ clock' = clock + 1
    /\ buckets' = NewBuckets(buckets)
    /\ root' = 1
    /\ pc' = "open"
    /\ UNCHANGED <<concVars, guardVars, feeds, pos, results, now, out, body, opened, cursor, got_any, fetched,
                   trace, fnVars, streamVars, writeVars, outcome>>

\* stream = open_source_stream(url) for a candidate; got_any = False
CandidateOpen ==
    /\ pc = "open" /\ root <= Len(RootPaths)
    /\ opened' = opened + 1
    /\ cursor' = 0
    /\ got_any' = FALSE
    /\ pc' = "items"
    /\ UNCHANGED <<concVars, guardVars, body, root, fetched, trace, fnVars, streamVars, aggVars, writeVars, outcome>>

\* open_source_stream raises (connection refused, timeout, non-2xx status):
\* the call stands outside every try
OpenFails ==
    /\ pc = "open"
    /\ opened' = opened + 1
    /\ trace' = trace \cup { "transport_open" }
    /\ Raise("transport")
    /\ UNCHANGED <<concVars, guardVars, body, root, cursor, got_any, fetched, fnVars, streamVars, aggVars, writeVars>>

\* the next item is an object: got_any = True, it is yielded and the first loop of
\* aggregate_whitemarket files it
ItemYield ==
    /\ pc = "items"
    /\ cursor < Len(ItemsAt(body, root))
    /\ LET obj == ItemsAt(body, root)[cursor + 1]
       IN  /\ obj # Garbage /\ IsDict(obj)
           /\ fetched' = Append(fetched, [ stream |-> opened, rec |-> obj ])
           /\ buckets' = BucketAdd(buckets, obj)
    /\ got_any' = TRUE
    /\ cursor' = cursor + 1
    /\ UNCHANGED <<concVars, guardVars, body, root, opened, trace, feeds, pos, results, now, clock, run, out,
                   fnVars, streamVars, writeVars, outcome, pc>>

\* the next item is not an object: got_any = True, nothing is yielded
ItemSkip ==
    /\ pc = "items"
    /\ cursor < Len(ItemsAt(body, root))
    /\ ItemsAt(body, root)[cursor + 1] = Scalar
    /\ got_any' = TRUE
    /\ cursor' = cursor + 1
    /\ UNCHANGED <<concVars, guardVars, body, root, opened, fetched, trace, fnVars, streamVars, aggVars,
                   writeVars, outcome, pc>>

\* except Exception: continue
NextCandidate ==
    /\ root' = root + 1
    /\ pc' = "open"

\* the document does not decode at the next item: ijson raises, the except clause
\* goes on to the next candidate
ItemDecodeError ==
    /\ pc = "items"
    /\ cursor < Len(ItemsAt(body, root))
    /\ ItemsAt(body, root)[cursor + 1] = Garbage
    /\ trace' = trace \cup { "decode" }
    /\ NextCandidate
    /\ UNCHANGED <<concVars, guardVars, body, opened, cursor, got_any, fetched, fnVars, streamVars, aggVars,
                   writeVars, outcome>>

\* reading the body fails (connection lost, timeout) while ijson pulls it: the same
\* except clause goes on to the next candidate
ItemReadError ==
    /\ pc = "items"
    /\ trace' = trace \cup { "transport_read" }
    /\ NextCandidate
    /\ UNCHANGED <<concVars, guardVars, body, opened, cursor, got_any, fetched, fnVars, streamVars, aggVars,
                   writeVars, outcome>>

\* the items are exhausted and got_any is set: return, the products end
CandidateAccepted ==
    /\ pc = "items"
    /\ cursor = Len(ItemsAt(body, root))
    /\ got_any
    /\ EndOfProducts
    /\ UNCHANGED <<concVars, guardVars, body, root, opened, cursor, got_any, fetched, trace, feeds, buckets,
                   clock, run, out, fnVars, streamVars, writeVars, outcome>>

\* an extraction that enumerated nothing and is taken as a match all the same
CandidateEmptyAccepted ==
    /\ pc = "items"
    /\ cursor = Len(ItemsAt(body, root))
    /\ ~got_any
    /\ EndOfProducts
    /\ UNCHANGED <<concVars, guardVars, body, root, opened, cursor, got_any, fetched, trace, feeds, buckets,
                   clock, run, out, fnVars, streamVars, writeVars, outcome>>

\* the items are exhausted and none was enumerated: the next candidate
CandidateEmpty ==
    /\ pc = "items"
    /\ cursor = Len(ItemsAt(body, root))
    /\ ~got_any
    /\ NextCandidate
    /\ UNCHANGED <<concVars, guardVars, body, opened, cursor, got_any, fetched, trace, fnVars, streamVars,
                   aggVars, writeVars, outcome>>

\* fallback: the stream is opened and wrapped in a text reader; a gzip body gives a
\* GzipFile, which io.TextIOWrapper accepts
FallbackOpen ==
    /\ pc = "open" /\ root = Fallback
    /\ body.gzip
    /\ opened' = opened + 1
    /\ cursor' = 0
    /\ pc' = "lines"
    /\ UNCHANGED <<concVars, guardVars, body, root, got_any, fetched, trace, fnVars, streamVars, aggVars,
                   writeVars, outcome>>

\* fallback on a pass-through body: io.TextIOWrapper refuses the PrependStream,
\* which has no readable/writable/seekable/closed, and the AttributeError leaves the run
FallbackWrapError ==
    /\ pc = "open" /\ root = Fallback
    /\ ~body.gzip
    /\ opened' = opened + 1
    /\ Raise("AttributeError")
    /\ UNCHANGED <<concVars, guardVars, body, root, cursor, got_any, fetched, trace, fnVars, streamVars,
                   aggVars, writeVars>>

\* one line of the fallback: json.loads, and a dict is yielded; any exception skips the line
FallbackLine ==
    /\ pc = "lines"
    /\ cursor < Len(Lines(body))
    /\ LET line == Lines(body)[cursor + 1]
       IN  /\ fetched' = IF LineYields(line)
                         THEN Append(fetched, [ stream |-> opened, rec |-> line ])
                         ELSE fetched
           /\ buckets' = IF LineYields(line) THEN BucketAdd(buckets, line) ELSE buckets
    /\ cursor' = cursor + 1
    /\ UNCHANGED <<concVars, guardVars, body, root, opened, got_any, trace, feeds, pos, results, now, clock, run,
                   out, fnVars, streamVars, writeVars, outcome, pc>>

\* reading the body fails during the fallback: the loop over the lines stands
\* outside the try, the error leaves the run
FallbackReadError ==
    /\ pc = "lines"
    /\ trace' = trace \cup { "transport_read" }
    /\ Raise("transport")
    /\ UNCHANGED <<concVars, guardVars, body, root, opened, cursor, got_any, fetched, fnVars, streamVars,
                   aggVars, writeVars>>

\* the lines are exhausted: the products end
FallbackEnd ==
    /\ pc = "lines"
    /\ cursor = Len(Lines(body))
    /\ EndOfProducts
    /\ UNCHANGED <<concVars, guardVars, body, root, opened, cursor, got_any, fetched, trace, feeds, buckets,
                   clock, run, out, fnVars, streamVars, writeVars, outcome>>

\* aggregate_whitemarket has returned: the rows are built from the aggregated records
IngestRows ==
    /\ pc = "reduce" /\ feeds = <<>>
    /\ pos > Len(buckets)
    /\ rows' = BuildRows(results)
    /\ pc' = "rows"
    /\ UNCHANGED <<concVars, guardVars, batch, buf, wpos, calls, store, fnVars, streamVars, aggVars, fetchVars,
                   outcome>>

Next ==
    \/ ClientError \/ IngestStart
    \/ CandidateOpen \/ OpenFails
    \/ ItemYield \/ ItemSkip \/ ItemDecodeError \/ ItemReadError
    \/ CandidateAccepted \/ CandidateEmpty
    \/ FallbackOpen \/ FallbackWrapError \/ FallbackLine \/ FallbackReadError \/ FallbackEnd
    \/ AggReduce \/ IngestRows
    \/ WriteBegin \/ WriteNothing \/ ChunkAppend \/ ChunkRest
    \/ UpsertOk \/ UpsertFails \/ ChunkEnd \/ WriteReturn

Spec == Init /\ [][Next]_vars

\* records yielded by the candidates, and by the fallback
RECURSIVE YieldedBy(_, _)
YieldedBy(fs, S) ==
    IF fs = <<>> THEN <<>>
    ELSE (IF fs[1].stream \in S THEN << fs[1].rec >> ELSE <<>>) \o YieldedBy(Tail(fs), S)

\* the lines that are valid JSON objects, in order
RECURSIVE DictLines(_)
DictLines(ls) ==
    IF ls = <<>> THEN <<>>
    ELSE (IF IsDict(Head(ls)) THEN << Head(ls) >> ELSE <<>>) \o DictLines(Tail(ls))

TransportFailed == trace \cap { "transport_open", "transport_read" } # {}

\* the fallback has read every line of an NDJSON body after the three candidates
\* yielded nothing
FallbackRead ==
    /\ root = Fallback /\ pc = "reduce"
    /\ body.shape = "ndjson" /\ ~TransportFailed
    /\ YieldedBy(fetched, 1..Len(RootPaths)) = <<>>

\* C3: when no candidate location yields a record, the fallback yields, in order,
\* one record for every line of the body that is a valid JSON object and skips
\* the lines that fail to parse.
C3_FallbackYieldsValidLines ==
    FallbackRead => YieldedBy(fetched, {Fallback}) = DictLines(Lines(body))

\* C4: once a candidate has yielded a record, its location is accepted for the
\* run: no further stream is opened, whatever happens on the stream afterwards.
C4_FirstSuccessWins ==
    [][ fetched # <<>> => opened' = opened ]_vars

\* C5: a transport failure, on opening a stream or while reading its body, ends
\* the run: it reaches the caller, no stream is opened after it and no upsert is issued.
C5_TransportFatal ==
    TransportFailed =>
        /\ pc = "done"
        /\ outcome.kind = "raised" /\ outcome.error = "transport"
        /\ calls = <<>>

\* the run is over, no candidate and no line of the fallback has yielded a record,
\* and neither the transport nor the client set-up has failed
EndedWithoutRecords ==
    /\ pc = "done" /\ root = Fallback
    /\ fetched = <<>>
    /\ ~TransportFailed

\* C15: when no candidate location and no line of the fallback yields a record (an
\* empty body included), the run returns 0 without raising and issues no upsert.
C15_NoRecordsIsNoError ==
    EndedWithoutRecords =>
        /\ outcome.kind = "returned" /\ outcome.value = 0
        /\ results = <<>> /\ calls = <<>>

\* the rows of a sequence of rows have pairwise distinct item_key values
DistinctKeys(rs) == \A i, j \in 1..Len(rs) : rs[i].item_key = rs[j].item_key => i = j

\* the item_key values the groups of the run reduce to
BucketKeys == { KeyOfSample(buckets[i].items[1]) : i \in 1..Len(buckets) }

\* C16: the rows handed to upsert_market_rows have pairwise distinct item_key values,
\* one row per distinct item_key, and no upsert batch holds a conflict key twice.
C16_DistinctRowKeys ==
    pc \in { "rows", "chunk", "yield", "yield_rest", "written" } \/ calls # <<>> =>
        /\ DistinctKeys(rows)
        /\ { rows[i].item_key : i \in 1..Len(rows) } = BucketKeys
        /\ DistinctKeys(buf)
        /\ \A c \in 1..Len(calls) : DistinctKeys(calls[c].rows)

\* two groups with the same item_key have become one row, which has been upserted
C16_Witness ==
    /\ Len(buckets) = 2 /\ Len(rows) = 1
    /\ Len(calls) = 1 /\ calls[1].rows = rows

\* the candidate of the given number has been tried and left behind
Passed(q) == q < root

\* the run has gone on from the fetch with the candidate it stands at
Settled == root \in 1..Len(RootPaths) /\ pc \notin { "start", "open", "items" }

\* C18: a candidate whose extraction enumerates zero items is no match: the next
\* candidate, or the fallback after the third, is tried on a stream opened for it,
\* and a run opens at most 4 streams.
C18_EmptyCandidateIsNoMatch ==
    /\ opened <= Len(RootPaths) + 1
    /\ pc = "open" => opened = root - 1
    /\ pc \in { "items", "lines" } => opened = root
    /\ trace = {} =>
          /\ \A q \in 1..Len(RootPaths) : Passed(q) => ItemsAt(body, q) = <<>>
          /\ Settled => ItemsAt(body, root) # <<>>

\* three candidates enumerated nothing without an error, the fallback reads the
\* fourth stream
C18_Witness ==
    /\ pc = "lines" /\ root = Fallback
    /\ opened = 4
    /\ trace = {}
    /\ body.elems # <<>>

-----------------------------------------------------------------------------
(* Two runs of run_whitemarket_ingest write to one store at the same time.  *)
(* Each run has its own rows, chunked buffer and position; an upsert call   *)
(* is one statement on the store and is applied as a whole.                 *)

MaxKeys == 2

Runs == { 1, 2 }

\* the row a run writes for the key of the given number: the key apart, every
\* field is the run's own (run 0 is an earlier run whose row is in the store)
RowOfRun(w, i) ==
    [ item_key          |-> [j \in 1..i |-> "k"],
      price_whitemarket |-> [cents |-> w],
      qty_whitemarket   |-> w,
      fetched_at        |-> IsoFormat(w) ]

\* the orders in which a run may hold some of the keys, each at most once
RowOrders ==
    { o \in UNION { [1..n -> 1..MaxKeys] : n \in 0..MaxKeys } :
        \A i, j \in 1..Len(o) : o[i] = o[j] => i = j }

RowsOfRun(w, o) == [ i \in 1..Len(o) |-> RowOfRun(w, o[i]) ]

InitConc ==
    /\ \E o1, o2 \in RowOrders :
          writers = [ w \in Runs |->
                        [ rows |-> RowsOfRun(w, IF w = 1 THEN o1 ELSE o2),
                          buf |-> <<>>, wpos |-> 1, pc |-> "rows", outcome |-> NoOutcome ] ]
    /\ batch \in 1..MaxBatch
    /\ store \in { <<>>, << RowOfRun(0, 1) >> }
    /\ calls = <<>>
    /\ rows = <<>> /\ buf = <<>> /\ wpos = 0
    /\ FnIdle /\ StreamIdle /\ AggIdle /\ FetchIdle /\ GuardIdle
    /\ outcome = NoOutcome /\ pc = "conc"

\* what a step of one run leaves alone, the store and the call log apart
ConcFrame ==
    UNCHANGED <<guardVars, rows, batch, buf, wpos, fnVars, streamVars, aggVars, fetchVars, outcome, pc>>

\* if rows: upsert_market_rows(sb, rows)
ConcWriteBegin ==
    \E w \in Runs :
        /\ writers[w].pc = "rows" /\ writers[w].rows # <<>>
        /\ writers' = [writers EXCEPT ![w].buf = <<>>, ![w].wpos = 1, ![w].pc = "chunk"]
        /\ ConcFrame /\ UNCHANGED <<calls, store>>

\* no rows: return len(rows) without a write
ConcWriteNothing ==
    \E w \in Runs :
        /\ writers[w].pc = "rows" /\ writers[w].rows = <<>>
        /\ writers' = [writers EXCEPT ![w].pc = "done",
                          ![w].outcome = [ kind |-> "returned", value |-> Len(writers[w].rows) ]]
        /\ ConcFrame /\ UNCHANGED <<calls, store>>

\* chunked: buf.append(x); a full buffer is yielded
ConcChunkAppend ==
    \E w \in Runs :
        LET me   == writers[w]
            buf1 == Append(me.buf, me.rows[me.wpos])
        IN  /\ me.pc = "chunk" /\ me.wpos <= Len(me.rows)
            /\ writers' = [writers EXCEPT ![w].buf = buf1, ![w].wpos = me.wpos + 1,
                              ![w].pc = IF ChunkFull(buf1, batch) THEN "yield" ELSE "chunk"]
            /\ ConcFrame /\ UNCHANGED <<calls, store>>

\* chunked: the rows are exhausted and the buffer holds a rest, which is yielded
ConcChunkRest ==
    \E w \in Runs :
        /\ writers[w].pc = "chunk" /\ writers[w].wpos > Len(writers[w].rows)
        /\ writers[w].buf # <<>>
        /\ writers' = [writers EXCEPT ![w].pc = "yield_rest"]
        /\ ConcFrame /\ UNCHANGED <<calls, store>>

\* the upsert of the batch a run has yielded succeeds
ConcUpsertOk ==
    \E w \in Runs :
        LET me == writers[w]
        IN  /\ me.pc \in {"yield", "yield_rest"}
            /\ calls' = Append(calls, [ rows |-> me.buf, on_conflict |-> "item_key",
                                        ok |-> TRUE, run |-> w ])
            /\ store' = UpsertBatch(store, me.buf)
            /\ writers' = [writers EXCEPT ![w].buf = IF me.pc = "yield" THEN <<>> ELSE me.buf,
                              ![w].pc = IF me.pc = "yield" THEN "chunk" ELSE "written"]
            /\ ConcFrame

\* the upsert of the batch a run has yielded raises: the run ends with the error
ConcUpsertFails ==
    \E w \in Runs :
        LET me == writers[w]
        IN  /\ me.pc \in {"yield", "yield_rest"}
            /\ calls' = Append(calls, [ rows |-> me.buf, on_conflict |-> "item_key",
                                        ok |-> FALSE, run |-> w ])
            /\ writers' = [writers EXCEPT ![w].pc = "done",
                              ![w].outcome = [ kind |-> "raised", error |-> "store" ]]
            /\ ConcFrame /\ UNCHANGED store

\* chunked is exhausted with an empty buffer: upsert_market_rows returns
ConcChunkEnd ==
    \E w \in Runs :
        /\ writers[w].pc = "chunk" /\ writers[w].wpos > Len(writers[w].rows)
        /\ writers[w].buf = <<>>
        /\ writers' = [writers EXCEPT ![w].pc = "written"]
        /\ ConcFrame /\ UNCHANGED <<calls, store>>

\* return len(rows)
ConcWriteReturn ==
    \E w \in Runs :
        /\ writers[w].pc = "written"
        /\ writers' = [writers EXCEPT ![w].pc = "done",
                          ![w].outcome = [ kind |-> "returned", value |-> Len(writers[w].rows) ]]
        /\ ConcFrame /\ UNCHANGED <<calls, store>>

NextConc ==
    \/ ConcWriteBegin \/ ConcWriteNothing \/ ConcChunkAppend \/ ConcChunkRest
    \/ ConcUpsertOk \/ ConcUpsertFails \/ ConcChunkEnd \/ ConcWriteReturn

SpecConc == InitConc /\ [][NextConc]_vars

ConcKeys == { [j \in 1..i |-> "k"] : i \in 1..MaxKeys }

\* the successful upsert calls that carried a row of the key, as positions in the log
OkWrites(k) ==
    { c \in 1..Len(calls) :
        calls[c].ok /\ \E r \in 1..Len(calls[c].rows) : calls[c].rows[r].item_key = k }

\* the run whose upsert of the key was applied last
LastWriter(k) == calls[CHOOSE c \in OkWrites(k) : \A d \in OkWrites(k) : d <= c].run

StoreRowsOf(k) == { i \in 1..Len(store) : store[i].item_key = k }

\* C17: with the chunk upserts of two runs interleaved in any order, every key
\* written by either run has one row in the store, and that row is in full the row
\* of the run whose upsert of the key was applied last.
C17_LastWriterWins ==
    \A k \in ConcKeys :
        OkWrites(k) # {} =>
            /\ Cardinality(StoreRowsOf(k)) = 1
            /\ \A i \in StoreRowsOf(k) :
                  \E r \in 1..Len(writers[LastWriter(k)].rows) :
                      store[i] = writers[LastWriter(k)].rows[r]

\* both runs have written both keys and returned; the first key was last written
\* by run 2 and the second by run 1
C17_Witness ==
    /\ \A w \in Runs : writers[w].pc = "done" /\ writers[w].outcome.kind = "returned"
    /\ \A w \in Runs : Len(writers[w].rows) = 2
    /\ LastWriter(<<"k">>) = 2 /\ LastWriter(<<"k", "k">>) = 1
    /\ Len(store) = 2

-----------------------------------------------------------------------------
(* License backend: the brute-force guard of /activate and /validate.  One  *)
(* IP sends requests, one at a time, each some seconds after the previous   *)
(* one; failed_attempts is the dict of (count, last_attempt) by IP, given   *)
(* as a set of entries with at most one per IP.                             *)

MAX_FAILED_ATTEMPTS == 5
BLOCK_DURATION      == 1800

ClientIp == "ip"

\* ip in failed_attempts, and failed_attempts[ip]
HasEntry(fa, ip) == \E e \in fa : e.ip = ip
EntryOf(fa, ip)  == CHOOSE e \in fa : e.ip = ip

\* failed_attempts[ip] = (count, last), and del failed_attempts[ip]
PutEntry(fa, ip, count, last) ==
    { e \in fa : e.ip # ip } \cup { [ ip |-> ip, count |-> count, last |-> last ] }
DelEntry(fa, ip) == { e \in fa : e.ip # ip }

\* an expiry test that lets the block end when BLOCK_DURATION has elapsed, not after
ExpiredAtDuration(last, t) == t - last >= BLOCK_DURATION

\* time.time() - last_attempt > BLOCK_DURATION
Expired(last, t) == t - last > BLOCK_DURATION

\* is_ip_blocked at time t: the answer and the dict it leaves
is_ip_blocked(fa, ip, t) ==
    IF ~HasEntry(fa, ip) THEN [ blocked |-> FALSE, fa |-> fa ]
    ELSE IF Expired(EntryOf(fa, ip).last, t)
         THEN [ blocked |-> FALSE, fa |-> DelEntry(fa, ip) ]
    ELSE [ blocked |-> EntryOf(fa, ip).count >= MAX_FAILED_ATTEMPTS, fa |-> fa ]

\* record_failed_attempt at time t
record_failed_attempt(fa, ip, t) ==
    IF HasEntry(fa, ip)
    THEN IF Expired(EntryOf(fa, ip).last, t) THEN PutEntry(fa, ip, 1, t)
         ELSE PutEntry(fa, ip, EntryOf(fa, ip).count + 1, t)
    ELSE PutEntry(fa, ip, 1, t)

\* a request: whether it carries the API key, what its body is like (malformed:
\* get_json raises; invalid: validate_input_data refuses it), and what the
\* Supabase function would answer (down: no answer or not a 200), which matters
\* only to a request that gets as far as the call
Requests ==
    { r \in [ auth : BOOLEAN, body : { "valid", "invalid", "malformed" },
              supabase : { "ok", "refused", "down" } ] :
        ~r.auth \/ r.body # "valid" => r.supabase = "ok" }

\* require_auth and the body of activate_license / validate_license, which differ in
\* the Supabase function they call: status, whether Supabase was called, the dict left
Handle(fn, req, fa, t) ==
    IF ~req.auth
    THEN [ status |-> 401, ok |-> FALSE, called |-> "none", fa |-> fa ]
    ELSE LET b == is_ip_blocked(fa, ClientIp, t)
         IN  IF b.blocked
             THEN [ status |-> 429, ok |-> FALSE, called |-> "none", fa |-> b.fa ]
             ELSE IF req.body = "malformed"
             THEN [ status |-> 500, ok |-> FALSE, called |-> "none", fa |-> b.fa ]
             ELSE IF req.body = "invalid"
             THEN [ status |-> 400, ok |-> FALSE, called |-> "none",
                    fa |-> record_failed_attempt(b.fa, ClientIp, t) ]
             ELSE IF req.supabase = "ok"
             THEN [ status |-> 200, ok |-> TRUE, called |-> fn, fa |-> b.fa ]
             ELSE [ status |-> 200, ok |-> FALSE, called |-> fn,
                    fa |-> record_failed_attempt(b.fa, ClientIp, t) ]

MaxRequests == 6

\* seconds between a request and the next one
Delays == { 1, BLOCK_DURATION, BLOCK_DURATION + 1 }

InitGuard ==
    /\ failed_attempts = {}
    /\ response = [ n |-> 0 ]
    /\ FnIdle /\ StreamIdle /\ AggIdle /\ FetchIdle /\ WriteIdle /\ ConcIdle
    /\ outcome = NoOutcome /\ pc = "serve"

\* the next request arrives d seconds after the previous one and is handled; the
\* answer is kept with the request, its time and the dict as it was before
Serve(fn, req, d) ==
    LET t == clock + d
        r == Handle(fn, req, failed_attempts, t)
    IN  /\ response.n < MaxRequests
        /\ clock' = t
        /\ failed_attempts' = r.fa
        /\ response' = [ n |-> response.n + 1, fn |-> fn, req |-> req, at |-> t,
                         before |-> failed_attempts,
                         status |-> r.status, ok |-> r.ok, called |-> r.called ]
        /\ UNCHANGED <<concVars, fnVars, streamVars, feeds, pos, buckets, results, now, run, out,
                       fetchVars, writeVars, outcome, pc>>

\* POST /activate
ActivateRequest ==
    /\ pc = "serve"
    /\ \E req \in Requests, d \in Delays : Serve("activate", req, d)

\* POST /validate
ValidateRequest ==
    /\ pc = "serve"
    /\ \E req \in Requests, d \in Delays : Serve("validate", req, d)

NextGuard == ActivateRequest \/ ValidateRequest

SpecGuard == InitGuard /\ [][NextGuard]_vars

Served == response.n > 0

\* the IP's record as it was when the last request arrived
HadEntry  == HasEntry(response.before, ClientIp)
EntryThen == EntryOf(response.before, ClientIp)

\* the request met MAX_FAILED_ATTEMPTS recorded failures, the last of them at most
\* BLOCK_DURATION ago / more than BLOCK_DURATION ago
MetBlock ==
    /\ HadEntry /\ EntryThen.count >= MAX_FAILED_ATTEMPTS
    /\ response.at - EntryThen.last <= BLOCK_DURATION
MetExpiredBlock ==
    /\ HadEntry /\ EntryThen.count >= MAX_FAILED_ATTEMPTS
    /\ response.at - EntryThen.last > BLOCK_DURATION

Answered429 ==
    /\ response.status = 429 /\ response.called = "none"
    /\ failed_attempts = response.before

\* the old record is gone and the request went through the handler: it was answered
\* 200, 400 or 500 and the dict holds nothing of the IP or one fresh failure
ProcessedAfresh ==
    /\ EntryThen \notin failed_attempts
    /\ response.status \in { 200, 400, 500 }
    /\ failed_attempts \in { DelEntry(response.before, ClientIp),
                             PutEntry(response.before, ClientIp, 1, response.at) }

====
